---- MODULE Spec2Model ----
(*
  State-machine model of codechecker_analyzer/analyzer_context.py:
  the Context singleton (package configuration, version metadata,
  analyzer and replacer binary resolution) and the get_context() accessor.

  Strings are sequences of tokens.  A token is an atom that stands for a
  non-empty run of characters holding none of '/', ':' and ';'; the three
  separators are tokens of their own, so that splitting, path joining and
  the <analyzer>:<path> match are computed, not assumed.
  JSON objects and Python dicts are functions whose DOMAIN is the key set.
*)
EXTENDS Integers, Sequences, FiniteSets, TLC

\* ------------------------------------------------------------------ bounds
MaxEntries == 2
MaxAnalyzers == 2
MaxCalls == 2

\* --------------------------------------------------------- basic values
\* Python's None where a string is expected (a reserved token no input holds).
None == <<"None">>

EmptyDict == [k \in {} |-> <<>>]

Range(s) == {s[i] : i \in DOMAIN s}

Max(a, b) == IF a >= b THEN a ELSE b

\* logger.DEBUG and logger.DEBUG_ANALYZER of codechecker_common.logger
DEBUG == 10
DEBUG_ANALYZER == 15

\* ------------------------------------------------------------ posixpath
\* index of the last '/' of p, 0 when there is none  (str.rfind('/') + 1)
LastSlash(p) ==
    LET idx == {i \in 1..Len(p) : p[i] = "/"}
    IN IF idx = {} THEN 0 ELSE CHOOSE i \in idx : \A j \in idx : j <= i

RECURSIVE rstrip(_)
rstrip(p) ==
    IF p # <<>> /\ p[Len(p)] = "/" THEN rstrip(SubSeq(p, 1, Len(p) - 1)) ELSE p

basename(p) == SubSeq(p, LastSlash(p) + 1, Len(p))

dirname(p) ==
    LET head == SubSeq(p, 1, LastSlash(p))
    IN IF head # <<>> /\ rstrip(head) # <<>> THEN rstrip(head) ELSE head

join(a, b) ==
    IF b # <<>> /\ b[1] = "/" THEN b
    ELSE IF a = <<>> \/ a[Len(a)] = "/" THEN a \o b
    ELSE a \o <<"/">> \o b

endswith_ccache(p) ==
    Len(p) >= 2 /\ p[Len(p) - 1] = "/" /\ p[Len(p)] = "ccache"

\* ------------------------------------------------- process surroundings
\* CC_BIN_DIR, CC_LIB_DIR, CC_DATA_FILES_DIR
bin_dir_path == <<"/", "pkg", "/", "bin">>
lib_dir_path == <<"/", "pkg", "/", "lib">>
data_files_dir_path == <<"/", "pkg">>
machine == <<"x86_64">>

\* regular files of the file system (os.path.isfile)
Files ==
    { <<"/", "f1">>, <<"/", "f2">>,
      <<"/", "bin", "/", "clang">>,
      <<"/", "bin", "/", "gcc">>,
      <<"/", "lib", "/", "ccache">>,
      <<"/", "opt", "/", "llvm", "/", "clang-apply-replacements">>,
      <<"/", "bin", "/", "clang-apply-replacements">>,
      <<"/", "pkg", "/", "tools", "/", "cppcheck">>,
      <<"/", "pkg", "/", "tools", "/", "infer">> }

isfile(p) == p \in Files

exists(p) == p \in Files \/ \E f \in Files : Len(f) > Len(p) /\ SubSeq(f, 1, Len(p) + 1) = p \o <<"/">>

\* symbolic links: /bin/gcc is a ccache wrapper, the replacer in /bin a link
realpath(p) ==
    IF p = <<"/", "bin", "/", "gcc">> THEN <<"/", "lib", "/", "ccache">>
    ELSE IF p = <<"/", "bin", "/", "clang-apply-replacements">>
         THEN <<"/", "opt", "/", "llvm", "/", "clang-apply-replacements">>
    ELSE p

\* the PATH of the process: a list of directories
ProcessPATH == << <<"/", "bin">> >>

\* distutils.spawn.find_executable(executable, path): the first directory of
\* path holding the file; path None means os.environ['PATH']
RECURSIVE find_in(_, _)
find_in(executable, dirs) ==
    IF dirs = <<>> THEN None
    ELSE IF isfile(join(Head(dirs), executable)) THEN join(Head(dirs), executable)
    ELSE find_in(executable, Tail(dirs))

find_executable(executable, path) == find_in(executable, path)


\* ------------------------------------------------------- str / re helpers
\* str.split(';'): always at least one piece
RECURSIVE split(_)
split(s) ==
    LET idx == {i \in 1..Len(s) : s[i] = ";"}
    IN IF idx = {} THEN <<s>>
       ELSE LET i == CHOOSE k \in idx : \A j \in idx : k <= j
            IN <<SubSeq(s, 1, i - 1)>> \o split(SubSeq(s, i + 1, Len(s)))

\* codechecker_analyzer.arg.analyzer_binary: <analyzer>:<path>, both parts
\* non-empty, the analyzer part taken greedily; a mismatch raises
\* ArgumentTypeError (ok = FALSE)
analyzer_binary(arg) ==
    LET idx == {i \in 2..(Len(arg) - 1) : arg[i] = ":"}
    IN IF idx = {} THEN [ok |-> FALSE, analyzer |-> <<>>, path |-> <<>>]
       ELSE LET i == CHOOSE k \in idx : \A j \in idx : j <= k
            IN [ok |-> TRUE, analyzer |-> SubSeq(arg, 1, i - 1),
                path |-> SubSeq(arg, i + 1, Len(arg))]

\* codechecker_common.util.load_json: the parsed object, None (here: no
\* value) when the file is missing or holds no JSON
load_json(file) ==
    IF file.kind = "json" THEN [some |-> TRUE, val |-> file.val]
    ELSE [some |-> FALSE, val |-> EmptyDict]

\* truth value of what load_json returned: None and {} are false
truthy(loaded) == loaded.some /\ DOMAIN loaded.val # {}

\* dict.get(key) on a JSON object: the value, or None
has_key(d, key) == key \in DOMAIN d

Restrict(f, keys) == [k \in keys |-> f[k]]

\* ---------------------------------------------------------- input domains
MissingFile == [kind |-> "missing", val |-> EmptyDict]
EmptyFile == [kind |-> "empty", val |-> EmptyDict]
Json(d) == [kind |-> "json", val |-> d]

EnvRoles ==
    {"cc_logger_bin", "cc_logger_file", "cc_logger_compiles", "ld_preload",
     "env_ld_lib_path"}

FullEnvVars ==
    [cc_logger_bin |-> "CC_LOGGER_BIN",
     cc_logger_file |-> "CC_LOGGER_FILE",
     cc_logger_compiles |-> "CC_LOGGER_GCC_LIKE",
     ld_preload |-> "LD_PRELOAD",
     env_ld_lib_path |-> "LD_LIBRARY_PATH"]

GoodConfig == Json([environment_variables |-> FullEnvVars])

ConfigFiles ==
    { MissingFile, EmptyFile, Json(EmptyDict),
      Json([other |-> <<"x">>]),
      Json([environment_variables |-> Restrict(FullEnvVars, EnvRoles \ {"ld_preload"})]),
      GoodConfig }

AnalyzerNames == {<<"clangsa">>, <<"clang-tidy">>, <<"infer">>}

\* layout values: on PATH; nowhere; a ccache wrapper on PATH; only in the
\* package's extra path; package relative (existing / not existing)
BareValues == {<<"clang">>, <<"clang-tidy">>, <<"gcc">>, <<"cppcheck">>}
DirValues == {<<"tools", "/", "infer">>, <<"tools", "/", "fbinfer">>}
LayoutValues == BareValues \cup DirValues

Pair(n, v) == [name |-> n, value |-> v]

\* the 'analyzers' object in file order: distinct names
Tables(maxlen, names, values) ==
    LET pairs == {Pair(n, v) : n \in names, v \in values}
    IN {t \in UNION {[1..k -> pairs] : k \in 0..maxlen} :
          \A i, j \in DOMAIN t : i # j => t[i].name # t[j].name}

ReplacerValues ==
    {<<"clang-apply-replacements">>, <<"tools", "/", "clang-apply-replacements">>}

FullRuntime(table, replacer, extra) ==
    ("analyzers" :> table) @@ ("clang-apply-replacements" :> replacer)
      @@ ("path_env_extra" :> extra) @@ ("ld_lib_path_extra" :> extra)

RuntimeKeys ==
    {"analyzers", "clang-apply-replacements", "path_env_extra", "ld_lib_path_extra"}

\* runtime objects over the given tables: every table with every replacer
\* value and with/without the extra path fragments, and each with one of the
\* two required keys left out
Runtimes(tables) ==
    {Restrict(FullRuntime(t, r, << <<"tools">> >>), ks) :
        t \in tables, r \in ReplacerValues,
        ks \in {RuntimeKeys, RuntimeKeys \ {"path_env_extra", "ld_lib_path_extra"}}}
    \cup {Restrict(FullRuntime(t, <<"clang-apply-replacements">>, <<>>), ks) :
        t \in tables,
        ks \in {{"analyzers"}, {"clang-apply-replacements"}}}

LayoutFiles(tables) ==
    { MissingFile, Json(EmptyDict), Json([other |-> <<"x">>]) }
    \cup {Json([runtime |-> r]) : r \in Runtimes(tables)}

VersionObj(minor, rcs) ==
    LET base == [major |-> <<"6">>, minor |-> minor, revision |-> <<"0">>, rc |-> rcs]
    IN base

Describe == [tag |-> <<"v6.12.0">>, dirty |-> <<"v6.12.0", "-dirty">>]

FullVersionFile(v) ==
    [version |-> v, package_build_date |-> <<"2023-01-01">>,
     git_hash |-> <<"abcdef">>, git_describe |-> Describe]

VersionKeys == {"version", "package_build_date", "git_hash", "git_describe"}

\* version objects: rc absent, empty or "1"
VersionObjs(minors) ==
    {Restrict(VersionObj(m, r), ks) :
        m \in minors, r \in {<<>>, <<"1">>},
        ks \in {{"major", "minor", "revision", "rc"}, {"major", "minor", "revision"}}}
    \cup {Restrict(VersionObj(<<"1", "2">>, <<>>), {"major", "minor"})}

VersionFiles(minors, keysets) ==
    { MissingFile, EmptyFile, Json(EmptyDict) }
    \cup {Json(Restrict(FullVersionFile(v), ks)) : v \in VersionObjs(minors), ks \in keysets}

\* CC_ANALYZER_BIN values: entries joined by ';'
RECURSIVE JoinEntries(_)
JoinEntries(es) ==
    IF es = <<>> THEN <<>>
    ELSE IF Len(es) = 1 THEN es[1]
    ELSE es[1] \o <<";">> \o JoinEntries(Tail(es))

OverrideValues(entries, maxlen) ==
    {JoinEntries(es) : es \in UNION {[1..k -> entries] : k \in 1..maxlen}}

GoodEntries ==
    { <<"clangsa", ":", "/", "f1">>, <<"clangsa", ":", "/", "f2">>,
      <<"clang-tidy", ":", "/", "f1">> }

BadEntries ==
    { <<>>, <<"clangsa">>, <<"clangsa", ":", "/", "nofile">>,
      <<"infer", ":", "x", ":", "/", "nofile">> }

\* os.environ: PATH always set, CC_ANALYZER_BIN set or not
Environ(value) == ("PATH" :> ProcessPATH) @@ ("CC_ANALYZER_BIN" :> value)
EnvironUnset == ("PATH" :> ProcessPATH)

Environs(values) == {EnvironUnset} \cup {Environ(v) : v \in values}

\* ------------------------------------------------------------------ state
VARIABLES
    files,        \* the three JSON files: config, layout, version
    environ,      \* os.environ
    from_path,    \* what env.is_analyzer_from_path() answers
    log_level,    \* LOG.getEffectiveLevel()
    pc,           \* position of the running call
    call_kind,    \* "get_context" or "Context": who started the construction
    instances,    \* Singleton._instances[Context]: object id, 0 when absent
    self,         \* attributes of the Context object
    frame,        \* locals of __populate_analyzers / __parse_CC_ANALYZER_BIN
    log,          \* messages given to LOG, and the printed traceback
    reads,        \* load_json calls per file
    resolves,     \* runs of __populate_analyzers and of __populate_replacer
    lookups,      \* find_executable calls made for analyzers
    consulted,    \* analyzers whose layout value was evaluated
    result,       \* how the last call ended
    exit_status,  \* status of the process exit, 0 while it runs
    returned,     \* object ids handed to callers
    calls,        \* number of get_context() / Context() calls
    objs,         \* number of Context objects allocated
    last_read     \* value of the last property read

inputs == <<files, environ, from_path, log_level>>

vars ==
    <<files, environ, from_path, log_level, pc, call_kind, instances, self,
      frame, log, reads, resolves, lookups, consulted, result, exit_status,
      returned, calls, objs, last_read>>

NoEnv == [tag |-> "None", env |-> EmptyDict]
SomeEnv(e) == [tag |-> "dict", env |-> e]

\* a Context object before __init__ has assigned anything
NewObject ==
    [env_vars |-> EmptyDict, pckg_layout |-> EmptyDict,
     package_version |-> None, package_build_date |-> None,
     package_git_hash |-> None, package_git_tag |-> None,
     analyzers |-> EmptyDict, analyzer_env |-> NoEnv, replacer |-> None,
     logger_lib_dir_path |-> None, logger_bin |-> None, logger_file |-> None,
     logger_compilers |-> None, ld_preload |-> None, ld_lib_path |-> None]

NewFrame ==
    [analyzer_from_path |-> FALSE, analyzer_env |-> NoEnv,
     env_var_bins |-> EmptyDict, had_error |-> FALSE, values |-> <<>>,
     compiler_binaries |-> <<>>]

NoResult == [kind |-> "none", exc |-> "", obj |-> 0]

Msg(level, msg, arg) == [level |-> level, msg |-> msg, arg |-> arg]

InitWith(cfgs, layouts, versions, levels, environs, modes) ==
    /\ files \in [config : cfgs, layout : layouts, version : versions]
    /\ environ \in environs
    /\ from_path \in modes
    /\ log_level \in levels
    /\ pc = "idle"
    /\ call_kind = "none"
    /\ instances = 0
    /\ self = NewObject
    /\ frame = NewFrame
    /\ log = <<>>
    /\ reads = [config |-> 0, layout |-> 0, version |-> 0]
    /\ resolves = [analyzers |-> 0, replacer |-> 0]
    /\ lookups = <<>>
    /\ consulted = {}
    /\ result = NoResult
    /\ exit_status = 0
    /\ returned = {}
    /\ calls = 0
    /\ objs = 0
    /\ last_read = [prop |-> "none", value |-> None]

\* ------------------------------------------------------ control transfer
\* a plain class: every Context() constructs a new object
UsesSingleton_plain_class == FALSE

\* class Context(metaclass=Singleton)
UsesSingleton == TRUE

\* the except clauses of get_context(): the exceptions it turns into exit(1)
get_context_catches == {"KeyError", "ValueError"}

Goto(next, lg) ==
    /\ pc' = next
    /\ log' = lg
    /\ UNCHANGED <<result, exit_status, instances, returned>>

\* an exception leaves the constructor: get_context() turns the ones it
\* catches into sys.exit(1), SystemExit ends the process, anything else
\* reaches the caller
Throw(exc, lg) ==
    /\ UNCHANGED <<instances, returned>>
    /\ IF call_kind = "get_context" /\ exc \in get_context_catches
       THEN /\ pc' = "exited"
            /\ exit_status' = 1
            /\ result' = [kind |-> "exit", exc |-> exc, obj |-> 0]
            /\ log' = lg \o <<IF exc = "KeyError"
                                THEN Msg("stderr", "traceback", <<exc>>)
                                ELSE Msg("error", "exception", <<exc>>)>>
       ELSE IF exc = "SystemExit"
       THEN /\ pc' = "exited"
            /\ exit_status' = 1
            /\ result' = [kind |-> "exit", exc |-> exc, obj |-> 0]
            /\ log' = lg
       ELSE /\ pc' = "idle"
            /\ exit_status' = exit_status
            /\ result' = [kind |-> "raised", exc |-> exc, obj |-> 0]
            /\ log' = lg

\* Singleton.__call__: the cached instance, or a new object to construct
SingletonCall ==
    /\ pc = "idle"
    /\ calls < MaxCalls
    /\ calls' = calls + 1
    /\ UNCHANGED <<inputs, reads, resolves, lookups, consulted, exit_status,
                   log, last_read, instances>>
    /\ IF UsesSingleton /\ instances # 0
       THEN /\ pc' = "idle"
            /\ result' = [kind |-> "returned", exc |-> "", obj |-> instances]
            /\ returned' = returned \cup {instances}
            /\ UNCHANGED <<self, frame, objs>>
       ELSE /\ pc' = "init"
            /\ objs' = objs + 1
            /\ self' = NewObject
            /\ frame' = NewFrame
            /\ result' = NoResult
            /\ UNCHANGED returned

\* get_context(): Context() inside the try block
get_context ==
    /\ call_kind' = "get_context"
    /\ SingletonCall

\* a caller constructs Context() itself
Context ==
    /\ call_kind' = "Context"
    /\ SingletonCall

\* ---------------------------------------------------------- construction
\* Context.__init__ up to cfg_dict['environment_variables'], with
\* __get_package_config
get_package_config ==
    /\ pc = "init"
    /\ reads' = [reads EXCEPT !.config = @ + 1]
    /\ UNCHANGED <<inputs, call_kind, frame, resolves, lookups, consulted,
                   calls, objs, last_read>>
    /\ LET cfg_dict == load_json(files.config)
       IN IF ~truthy(cfg_dict)
          THEN Throw("ValueError", log) /\ self' = self
          ELSE IF ~has_key(cfg_dict.val, "environment_variables")
          THEN Throw("KeyError", log) /\ self' = self
          ELSE /\ Goto("layout", log)
               /\ self' = [self EXCEPT
                              !.env_vars = cfg_dict.val.environment_variables]

\* the logger library directory: the bundled one if it exists, else the one
\* under the library directory
logger_lib_dir ==
    LET bundled == join(join(join(data_files_dir_path, <<"ld_logger">>), <<"lib">>), machine)
    IN IF exists(bundled) THEN bundled
       ELSE join(join(join(join(lib_dir_path, <<"codechecker_analyzer">>),
                           <<"ld_logger">>), <<"lib">>), machine)

\* Context.__init__ from lcfg_dict = ... to the logger attributes, with
\* __get_package_layout
get_package_layout ==
    /\ pc = "layout"
    /\ reads' = [reads EXCEPT !.layout = @ + 1]
    /\ UNCHANGED <<inputs, call_kind, frame, resolves, lookups, consulted,
                   calls, objs, last_read>>
    /\ LET lcfg_dict == load_json(files.layout)
       IN IF ~truthy(lcfg_dict)
          THEN Throw("ValueError", log) /\ self' = self
          ELSE IF ~has_key(lcfg_dict.val, "runtime")
          THEN Throw("KeyError", log) /\ self' = self
          ELSE /\ Goto("init_env", log)
               /\ self' = [self EXCEPT
                              !.pckg_layout = lcfg_dict.val.runtime,
                              !.logger_lib_dir_path = logger_lib_dir]

\* os.environ.get(name)
environ_get(name) == IF name \in DOMAIN environ THEN environ[name] ELSE None

\* Context.__init_env
init_env ==
    /\ pc = "init_env"
    /\ UNCHANGED <<inputs, call_kind, frame, reads, resolves, lookups,
                   consulted, calls, objs, last_read>>
    /\ IF ~(EnvRoles \subseteq DOMAIN self.env_vars)
       THEN Throw("KeyError", log) /\ self' = self
       ELSE /\ Goto("set_version", log)
            /\ self' = [self EXCEPT
                  !.logger_bin = environ_get(self.env_vars["cc_logger_bin"]),
                  !.logger_file = environ_get(self.env_vars["cc_logger_file"]),
                  !.logger_compilers = environ_get(self.env_vars["cc_logger_compiles"]),
                  !.ld_preload = environ_get(self.env_vars["ld_preload"]),
                  !.ld_lib_path = <<self.env_vars["env_ld_lib_path"]>>]

\* d.get(key), None when absent
dict_get(d, key) == IF key \in DOMAIN d THEN d[key] ELSE None

\* the suffix appended whenever the rc key is present, also when it is empty
version_string_rc_unchecked(package_version) ==
    package_version["major"] \o <<".">> \o package_version["minor"] \o <<".">>
      \o package_version["revision"]
      \o (IF "rc" \in DOMAIN package_version
          THEN <<"-rc">> \o package_version["rc"] ELSE <<>>)

\* the version string of __set_version
version_string(package_version) ==
    package_version["major"] \o <<".">> \o package_version["minor"] \o <<".">>
      \o package_version["revision"]
      \o (IF "rc" \in DOMAIN package_version /\ package_version["rc"] # <<>>
          THEN <<"-rc">> \o package_version["rc"] ELSE <<>>)

\* a threshold test in place of the two equalities
takes_dirty_tag_threshold(level) == level <= Max(DEBUG, DEBUG_ANALYZER)

\* the log levels at which __set_version takes the dirty tag
takes_dirty_tag(level) == level = DEBUG \/ level = DEBUG_ANALYZER

\* Context.__set_version
set_version ==
    /\ pc = "set_version"
    /\ reads' = [reads EXCEPT !.version = @ + 1]
    /\ UNCHANGED <<inputs, call_kind, frame, resolves, lookups, consulted,
                   calls, objs, last_read>>
    /\ LET vfile_data == load_json(files.version)
           d == vfile_data.val
           describe == IF "git_describe" \in DOMAIN d THEN d["git_describe"]
                       ELSE EmptyDict
       IN IF ~truthy(vfile_data)
          THEN Throw("SystemExit", log) /\ self' = self
          ELSE IF ~has_key(d, "version") \/ ~has_key(d, "package_build_date")
          THEN Throw("KeyError", log) /\ self' = self
          ELSE IF ~({"major", "minor", "revision"} \subseteq DOMAIN d["version"])
          THEN Throw("KeyError", log) /\ self' = self
          ELSE /\ Goto("populate_analyzers", log)
               /\ self' = [self EXCEPT
                     !.package_version = version_string(d["version"]),
                     !.package_build_date = d["package_build_date"],
                     !.package_git_hash = dict_get(d, "git_hash"),
                     !.package_git_tag =
                         IF takes_dirty_tag(log_level)
                         THEN dict_get(describe, "dirty")
                         ELSE dict_get(describe, "tag")]

\* ------------------------------------------------------ analyzer binaries
\* env.extend(path_env_extra, ld_lib_path_extra): the process environment
\* with the extra fragments put in front of PATH and of the library path
extend(path_extra, ld_extra) ==
    ("PATH" :> (path_extra \o environ["PATH"]))
      @@ ("LD_LIBRARY_PATH" :> ld_extra) @@ environ

RECURSIVE join_all(_)
join_all(ps) ==
    IF ps = <<>> THEN <<>>
    ELSE <<join(data_files_dir_path, Head(ps))>> \o join_all(Tail(ps))

\* property path_env_extra
path_env_extra(s) ==
    IF from_path THEN <<>>
    ELSE IF "path_env_extra" \in DOMAIN s.pckg_layout
         THEN join_all(s.pckg_layout["path_env_extra"]) ELSE <<>>

\* property ld_lib_path_extra
ld_lib_path_extra(s) ==
    IF from_path THEN <<>>
    ELSE IF "ld_lib_path_extra" \in DOMAIN s.pckg_layout
         THEN join_all(s.pckg_layout["ld_lib_path_extra"]) ELSE <<>>

\* property analyzer_env: the value of self.__analyzer_env after the read
analyzer_env(s) ==
    IF s.analyzer_env.tag = "None"
    THEN SomeEnv(extend(path_env_extra(s), ld_lib_path_extra(s)))
    ELSE s.analyzer_env

\* __populate_analyzers up to the call of __parse_CC_ANALYZER_BIN, and that
\* method up to the split of the value: it looks the variable up in the
\* attribute self.__analyzer_env, which is None unless the property was read
populate_analyzers ==
    /\ pc = "populate_analyzers"
    /\ resolves' = [resolves EXCEPT !.analyzers = @ + 1]
    /\ UNCHANGED <<inputs, call_kind, reads, lookups, consulted, calls, objs,
                   last_read>>
    /\ LET attr == IF ~from_path THEN analyzer_env(self) ELSE self.analyzer_env
           local == IF ~from_path THEN attr ELSE NoEnv
           fr == [NewFrame EXCEPT !.analyzer_from_path = from_path,
                                  !.analyzer_env = local]
       IN /\ self' = [self EXCEPT !.analyzer_env = attr]
          /\ IF attr.tag = "None"
             THEN Throw("TypeError", log) /\ frame' = fr
             ELSE /\ Goto("parse", log)
                  /\ frame' = [fr EXCEPT !.values =
                        IF "CC_ANALYZER_BIN" \in DOMAIN attr.env
                        THEN split(attr.env["CC_ANALYZER_BIN"]) ELSE <<>>]

\* what an entry that passed analyzer_binary does to had_error
entry_had_error(had_error, path) == had_error \/ ~isfile(path)

\* one iteration of the loop of __parse_CC_ANALYZER_BIN
parse_entry ==
    /\ pc = "parse"
    /\ frame.values # <<>>
    /\ UNCHANGED <<inputs, call_kind, self, reads, resolves, lookups,
                   consulted, calls, objs, last_read>>
    /\ LET value == Head(frame.values)
           rest == Tail(frame.values)
           parsed == analyzer_binary(value)
       IN IF ~parsed.ok
          THEN /\ frame' = [frame EXCEPT !.values = rest, !.had_error = TRUE]
               /\ Goto("parse", Append(log, Msg("error", "wrong_format", value)))
          ELSE LET he == entry_had_error(frame.had_error, parsed.path)
                   lg == IF ~isfile(parsed.path)
                         THEN Append(log, Msg("error", "not_a_binary", parsed.path))
                         ELSE log
               IN IF he
                  THEN /\ frame' = [frame EXCEPT !.values = rest, !.had_error = he]
                       /\ Goto("parse", lg)
                  ELSE /\ frame' = [frame EXCEPT
                             !.values = rest,
                             !.env_var_bins =
                                 (parsed.analyzer :> parsed.path) @@ @]
                       /\ Goto("parse", Append(lg, Msg("info", "using", value)))

\* the end of __parse_CC_ANALYZER_BIN and, back in __populate_analyzers, the
\* fetch of the layout's analyzers
parse_return ==
    /\ pc = "parse"
    /\ frame.values = <<>>
    /\ UNCHANGED <<inputs, call_kind, self, reads, resolves, lookups,
                   consulted, calls, objs, last_read>>
    /\ IF frame.had_error
       THEN /\ Throw("SystemExit", Append(log, Msg("info", "usage_hint", <<>>)))
            /\ frame' = frame
       ELSE IF ~has_key(self.pckg_layout, "analyzers")
       THEN Throw("AttributeError", log) /\ frame' = frame
       ELSE /\ Goto("loop", log)
            /\ frame' = [frame EXCEPT
                            !.compiler_binaries = self.pckg_layout["analyzers"]]

\* the value stripped to its file name in every mode
effective_value_stripped(value) == basename(value)

\* the value the loop works with: stripped to its file name in PATH-mode
effective_value(value) ==
    IF frame.analyzer_from_path THEN basename(value) ELSE value

\* the PATH given to find_executable; None there means os.environ['PATH']
search_path ==
    IF frame.analyzer_env.tag = "dict" THEN frame.analyzer_env.env["PATH"]
    ELSE environ["PATH"]

\* the path stored for a located binary: its real path, unless that is ccache
stored_binary(compiler_binary) ==
    IF endswith_ccache(realpath(compiler_binary)) THEN compiler_binary
    ELSE realpath(compiler_binary)

\* the loop without the override test
overridden_never(name) == FALSE

\* whether the loop takes the override for this analyzer
overridden(name) == name \in DOMAIN frame.env_var_bins

\* one iteration of the loop of __populate_analyzers
resolve_analyzer ==
    /\ pc = "loop"
    /\ frame.compiler_binaries # <<>>
    /\ UNCHANGED <<inputs, call_kind, reads, resolves, calls, objs, last_read>>
    /\ LET name == Head(frame.compiler_binaries).name
           value == effective_value(Head(frame.compiler_binaries).value)
           compiler_binary == find_executable(value, search_path)
       IN /\ frame' = [frame EXCEPT !.compiler_binaries = Tail(@)]
          /\ IF overridden(name)
             THEN /\ self' = [self EXCEPT !.analyzers =
                                  (name :> frame.env_var_bins[name]) @@ @]
                  /\ Goto("loop", log)
                  /\ UNCHANGED <<lookups, consulted>>
             ELSE IF dirname(value) # <<>>
             THEN /\ self' = [self EXCEPT !.analyzers =
                                  (name :> join(data_files_dir_path, value)) @@ @]
                  /\ Goto("loop", log)
                  /\ consulted' = consulted \cup {name}
                  /\ UNCHANGED lookups
             ELSE /\ consulted' = consulted \cup {name}
                  /\ lookups' = Append(lookups,
                        [name |-> name, value |-> value, path |-> search_path])
                  /\ IF compiler_binary = None
                     THEN /\ self' = self
                          /\ Goto("loop", Append(log, Msg("debug", "not_found", value)))
                     ELSE /\ self' = [self EXCEPT !.analyzers =
                                  (name :> stored_binary(compiler_binary)) @@ @]
                          /\ Goto("loop", log)

\* __populate_replacer, the end of __init__ and of Singleton.__call__: the
\* object is stored as the instance and handed to the caller
populate_replacer ==
    /\ pc = "loop"
    /\ frame.compiler_binaries = <<>>
    /\ resolves' = [resolves EXCEPT !.replacer = @ + 1]
    /\ UNCHANGED <<inputs, call_kind, frame, reads, lookups, consulted, calls,
                   objs, last_read>>
    /\ IF ~has_key(self.pckg_layout, "clang-apply-replacements")
       THEN Throw("TypeError", log) /\ self' = self
       ELSE LET replacer_binary == self.pckg_layout["clang-apply-replacements"]
            IN /\ self' = [self EXCEPT !.replacer =
                     IF dirname(replacer_binary) # <<>>
                     THEN join(data_files_dir_path, replacer_binary)
                     ELSE find_executable(replacer_binary, environ["PATH"])]
               /\ pc' = "idle"
               /\ log' = log
               /\ exit_status' = exit_status
               /\ instances' = objs
               /\ returned' = returned \cup {objs}
               /\ result' = [kind |-> "returned", exc |-> "", obj |-> objs]

\* ------------------------------------------------------------ properties
Properties ==
    {"version", "package_git_tag", "analyzer_binaries", "replacer_binary",
     "path_env_extra", "analyzer_env", "checker_plugin"}

property_value(prop) ==
    CASE prop = "version" -> self.package_version
      [] prop = "package_git_tag" -> self.package_git_tag
      [] prop = "analyzer_binaries" -> self.analyzers
      [] prop = "replacer_binary" -> self.replacer
      [] prop = "path_env_extra" -> path_env_extra(self)
      [] prop = "analyzer_env" -> analyzer_env(self).env
      [] prop = "checker_plugin" ->
           IF from_path THEN None ELSE join(data_files_dir_path, <<"plugin">>)

\* what a property read does to the files' read counts: nothing
reads_after_property(prop) == reads

\* a caller reads a property of the instance
read_property ==
    /\ pc = "idle"
    /\ instances # 0
    /\ \E prop \in Properties :
         /\ last_read' = [prop |-> prop, value |-> property_value(prop)]
         /\ self' = IF prop = "analyzer_env"
                    THEN [self EXCEPT !.analyzer_env = analyzer_env(self)]
                    ELSE self
         /\ reads' = reads_after_property(prop)
    /\ UNCHANGED <<inputs, pc, call_kind, instances, frame, log, resolves,
                   lookups, consulted, result, exit_status, returned, calls, objs>>

Next ==
    \/ get_context
    \/ Context
    \/ get_package_config
    \/ get_package_layout
    \/ init_env
    \/ set_version
    \/ populate_analyzers
    \/ parse_entry
    \/ parse_return
    \/ resolve_analyzer
    \/ populate_replacer
    \/ read_property

\* ------------------------------------------------------- specification
GoodTable ==
    <<Pair(<<"clangsa">>, <<"clang">>), Pair(<<"clang-tidy">>, <<"clang-tidy">>)>>

SmallTables ==
    { <<>>, GoodTable,
      <<Pair(<<"clang-tidy">>, <<"tools", "/", "infer">>), Pair(<<"clangsa">>, <<"gcc">>)>>,
      <<Pair(<<"infer">>, <<"cppcheck">>)>> }

\* the small tables in a complete runtime object
SmallLayouts ==
    {Json([runtime |-> FullRuntime(t, <<"clang-apply-replacements">>,
                                   << <<"tools">> >>)]) : t \in SmallTables}

GoodLayout ==
    Json([runtime |-> FullRuntime(GoodTable, <<"clang-apply-replacements">>,
                                  << <<"tools">> >>)])

GoodVersion == Json(FullVersionFile(VersionObj(<<"1", "2">>, <<"1">>)))

LogLevels == {0, 5, DEBUG, 12, DEBUG_ANALYZER, 20, 30}

Minors == {<<"1", "2">>, <<"0">>}

VersionKeySets ==
    {VersionKeys, VersionKeys \ {"git_describe"}, VersionKeys \ {"git_hash"},
     VersionKeys \ {"package_build_date"}, VersionKeys \ {"version"}}

\* every analyzers table up to MaxAnalyzers entries, in a complete runtime
\* object
WideLayouts ==
    {Json([runtime |-> FullRuntime(t, <<"clang-apply-replacements">>,
                                   << <<"tools">> >>)]) :
        t \in Tables(MaxAnalyzers, AnalyzerNames, LayoutValues)}

SmallEnvirons ==
    Environs({<<"infer", ":", "/", "f2", ";", "clangsa", ":", "/", "f1">>})

\* the configuration file varies
InitConfig ==
    InitWith(ConfigFiles, {GoodLayout}, {GoodVersion}, {20}, {EnvironUnset}, BOOLEAN)

\* the layout file varies: missing, without its required keys, complete
InitLayoutFile ==
    InitWith({GoodConfig}, LayoutFiles(SmallTables), {GoodVersion}, {20},
             SmallEnvirons, BOOLEAN)

\* the version file and the log level vary
InitVersion ==
    InitWith({GoodConfig}, {GoodLayout}, VersionFiles(Minors, VersionKeySets),
             LogLevels, {EnvironUnset}, BOOLEAN)

\* CC_ANALYZER_BIN varies over every value of up to MaxEntries entries
InitOverride ==
    InitWith({GoodConfig}, SmallLayouts, {GoodVersion}, {20},
             Environs(OverrideValues(GoodEntries \cup BadEntries, MaxEntries)),
             BOOLEAN)

\* the package layout varies over every table of up to MaxAnalyzers analyzers
InitLayout ==
    InitWith({GoodConfig}, WideLayouts, {GoodVersion}, {20}, SmallEnvirons, BOOLEAN)

Init == InitConfig \/ InitLayoutFile \/ InitVersion \/ InitOverride \/ InitLayout

Spec == Init /\ [][Next]_vars

\* ------------------------------------------------- what the inputs hold
Constructed == instances # 0

\* the last call has ended, by a return, an exception or an exit
CallEnded == pc \in {"idle", "exited"} /\ result.kind # "none"

HasTable ==
    /\ files.layout.kind = "json"
    /\ "runtime" \in DOMAIN files.layout.val
    /\ "analyzers" \in DOMAIN files.layout.val["runtime"]

\* the analyzers of the package layout, in file order
LayoutTable == IF HasTable THEN files.layout.val["runtime"]["analyzers"] ELSE <<>>

OverrideSet == "CC_ANALYZER_BIN" \in DOMAIN environ

OverrideEntries == IF OverrideSet THEN split(environ["CC_ANALYZER_BIN"]) ELSE <<>>

GoodEntry(e) == analyzer_binary(e).ok /\ isfile(analyzer_binary(e).path)

AllEntriesGood == \A i \in DOMAIN OverrideEntries : GoodEntry(OverrideEntries[i])

\* the analyzer names the well-formed entries of CC_ANALYZER_BIN give
OverrideNames ==
    {analyzer_binary(OverrideEntries[i]).analyzer :
        i \in {j \in DOMAIN OverrideEntries : analyzer_binary(OverrideEntries[j]).ok}}

\* the path of the last entry of CC_ANALYZER_BIN that names n
LastOverridePath(n) ==
    LET idx == {i \in DOMAIN OverrideEntries :
                   /\ analyzer_binary(OverrideEntries[i]).ok
                   /\ analyzer_binary(OverrideEntries[i]).analyzer = n}
        last == CHOOSE i \in idx : \A j \in idx : j <= i
    IN analyzer_binary(OverrideEntries[last]).path

HasSlash(v) == \E i \in DOMAIN v : v[i] = "/"

ValidConfig ==
    /\ files.config.kind = "json"
    /\ "environment_variables" \in DOMAIN files.config.val
    /\ EnvRoles \subseteq DOMAIN files.config.val["environment_variables"]

ValidLayout ==
    /\ HasTable
    /\ "clang-apply-replacements" \in DOMAIN files.layout.val["runtime"]

ValidVersion ==
    /\ files.version.kind = "json"
    /\ {"version", "package_build_date"} \subseteq DOMAIN files.version.val
    /\ {"major", "minor", "revision"} \subseteq DOMAIN files.version.val["version"]

ValidFiles == ValidConfig /\ ValidLayout /\ ValidVersion

\* --------------------------------------------------------------- claims

\* C2: once a call has returned a Context, every call returns that same
\* object, each of the three JSON files has been read exactly once and the
\* analyzer and the replacer binaries have been resolved exactly once, also
\* after further calls and property reads.
C2_SingletonReadsOnce ==
    Constructed =>
        /\ returned = {instances}
        /\ objs = 1
        /\ reads = [config |-> 1, layout |-> 1, version |-> 1]
        /\ resolves = [analyzers |-> 1, replacer |-> 1]

C2_Witness ==
    /\ Constructed
    /\ calls = MaxCalls
    /\ result.kind = "returned"
    /\ last_read.prop = "analyzer_binaries"

\* C4: after construction, a layout analyzer whose configured value has a
\* directory component and that CC_ANALYZER_BIN does not name is stored as
\* the data-files root joined with that value, whether or not the file
\* exists, and find_executable was not called for it.
C4_DirValueJoined ==
    Constructed =>
        \A i \in DOMAIN LayoutTable :
            LET n == LayoutTable[i].name
                v == LayoutTable[i].value
            IN (HasSlash(v) /\ n \notin OverrideNames) =>
                  /\ n \in DOMAIN self.analyzers
                  /\ self.analyzers[n] = data_files_dir_path \o <<"/">> \o v
                  /\ \A k \in DOMAIN lookups : lookups[k].name # n

C4_Witness ==
    /\ Constructed
    /\ \E i \in DOMAIN LayoutTable :
          /\ LayoutTable[i].value = <<"tools", "/", "fbinfer">>
          /\ LayoutTable[i].name \notin OverrideNames
          /\ LayoutTable[i].name \in DOMAIN self.analyzers
          /\ ~isfile(self.analyzers[LayoutTable[i].name])

\* C6: when every entry of CC_ANALYZER_BIN is well-formed and names an
\* existing file, an analyzer that is both in the layout and named by an entry
\* is stored with the path of the last entry naming it, and its layout value
\* is never evaluated.
C6_OverrideWins ==
    (OverrideSet /\ AllEntriesGood) =>
        /\ \A n \in DOMAIN self.analyzers :
              n \in OverrideNames => self.analyzers[n] = LastOverridePath(n)
        /\ consulted \cap OverrideNames = {}
        /\ Constructed =>
              \A i \in DOMAIN LayoutTable :
                  LayoutTable[i].name \in OverrideNames =>
                      LayoutTable[i].name \in DOMAIN self.analyzers

C6_Witness ==
    /\ Constructed
    /\ OverrideSet
    /\ Len(OverrideEntries) = 2
    /\ analyzer_binary(OverrideEntries[1]).analyzer = <<"clangsa">>
    /\ analyzer_binary(OverrideEntries[2]).analyzer = <<"clangsa">>
    /\ analyzer_binary(OverrideEntries[1]).path # analyzer_binary(OverrideEntries[2]).path
    /\ <<"clangsa">> \in DOMAIN self.analyzers
    /\ self.analyzers[<<"clangsa">>] = analyzer_binary(OverrideEntries[2]).path

\* the version the version file describes
ExpectedVersion ==
    LET v == files.version.val["version"]
        base == v["major"] \o <<".">> \o v["minor"] \o <<".">> \o v["revision"]
    IN IF "rc" \in DOMAIN v
       THEN (IF Len(v["rc"]) > 0 THEN base \o <<"-rc">> \o v["rc"] ELSE base)
       ELSE base

\* C7: after construction the version property is major.minor.revision,
\* followed by -rc<rc> exactly when the version object has a non-empty rc.
C7_VersionString ==
    Constructed =>
        /\ self.package_version = ExpectedVersion
        /\ last_read.prop = "version" => last_read.value = ExpectedVersion

C7_Witness ==
    /\ Constructed
    /\ last_read.prop = "version"
    /\ "rc" \in DOMAIN files.version.val["version"]
    /\ files.version.val["version"]["rc"] = <<>>
    /\ last_read.value = <<"6", ".", "1", "2", ".", "0">>

HasDescribe == "git_describe" \in DOMAIN files.version.val

\* C10 as stated: the dirty tag at every level at or below the higher of
\* DEBUG and DEBUG_ANALYZER, the clean tag above it, None without a
\* git_describe block.
C10_DirtyAtOrBelowThreshold ==
    Constructed =>
        self.package_git_tag =
            IF ~HasDescribe THEN None
            ELSE IF log_level <= Max(DEBUG, DEBUG_ANALYZER)
            THEN files.version.val["git_describe"]["dirty"]
            ELSE files.version.val["git_describe"]["tag"]

\* C10 amended: the dirty tag exactly when the effective level equals DEBUG
\* or equals DEBUG_ANALYZER, the clean tag at every other level, None
\* without a git_describe block.
C10_DirtyAtDebugLevels ==
    Constructed =>
        /\ self.package_git_tag =
              IF ~HasDescribe THEN None
              ELSE IF log_level \in {DEBUG, DEBUG_ANALYZER}
              THEN files.version.val["git_describe"]["dirty"]
              ELSE files.version.val["git_describe"]["tag"]
        /\ last_read.prop = "package_git_tag" =>
              last_read.value = self.package_git_tag

C10_Witness ==
    /\ Constructed
    /\ HasDescribe
    /\ log_level < DEBUG
    /\ last_read.prop = "package_git_tag"
    /\ last_read.value = files.version.val["git_describe"]["tag"]

\* ----------------------------------------- claims the code does not meet

\* C1: a get_context() call ends by returning the Context or by a process
\* exit; no exception reaches the caller.
C1_NoExceptionEscapes ==
    (call_kind = "get_context" /\ CallEnded) =>
        \/ result.kind = "returned" /\ Constructed
        \/ result.kind = "exit" /\ exit_status # 0

\* the error each bad entry is to be reported with, in entry order
RECURSIVE ExpectedErrors(_)
ExpectedErrors(es) ==
    IF es = <<>> THEN <<>>
    ELSE LET e == Head(es)
             p == analyzer_binary(e)
         IN (IF ~p.ok THEN <<Msg("error", "wrong_format", e)>>
             ELSE IF ~isfile(p.path) THEN <<Msg("error", "not_a_binary", p.path)>>
             ELSE <<>>) \o ExpectedErrors(Tail(es))

IsError(m) == m.level = "error"

IsUsing(m) == m.msg = "using"

\* C3: with CC_ANALYZER_BIN set and at least one bad entry, a construction
\* that comes to parse the variable ends in a non-zero exit, with exactly one
\* error logged per bad entry, then the usage hint, and no layout analyzer
\* resolved.
C3_BadEntryExits ==
    (OverrideSet /\ ~AllEntriesGood /\ resolves.analyzers > 0 /\ CallEnded) =>
        /\ result.kind = "exit"
        /\ exit_status # 0
        /\ SelectSeq(log, IsError) = ExpectedErrors(OverrideEntries)
        /\ Len(log) > 0
        /\ log[Len(log)] = Msg("info", "usage_hint", <<>>)
        /\ DOMAIN self.analyzers = {}
        /\ lookups = <<>>

\* the directories searched for a bare name: the process PATH in PATH-mode,
\* else the package's extra directories followed by the process PATH
SearchedPATH ==
    IF from_path THEN ProcessPATH
    ELSE (IF "path_env_extra" \in DOMAIN files.layout.val["runtime"]
          THEN join_all(files.layout.val["runtime"]["path_env_extra"])
          ELSE <<>>) \o ProcessPATH

OnSearchedPATH(v) ==
    \E k \in DOMAIN SearchedPATH : isfile(SearchedPATH[k] \o <<"/">> \o v)

\* the layout value as the mode has it looked up
LookedUp(v) == IF from_path THEN basename(v) ELSE v

\* C5: with valid files and overrides, a layout analyzer with a bare name
\* that is not on the searched PATH and is not overridden leaves the
\* construction to complete, is no key of analyzer_binaries, and the
\* resolvable analyzers after it are resolved.
C5_NotFoundIsSoft ==
    (CallEnded /\ ValidFiles /\ AllEntriesGood) =>
        \A i \in DOMAIN LayoutTable :
            LET n == LayoutTable[i].name
                v == LookedUp(LayoutTable[i].value)
            IN (~HasSlash(v) /\ n \notin OverrideNames /\ ~OnSearchedPATH(v)) =>
                  /\ result.kind = "returned"
                  /\ n \notin DOMAIN self.analyzers
                  /\ \A j \in DOMAIN LayoutTable :
                        (j > i /\ (\/ LayoutTable[j].name \in OverrideNames
                                   \/ HasSlash(LookedUp(LayoutTable[j].value))
                                   \/ OnSearchedPATH(LookedUp(LayoutTable[j].value))))
                          => LayoutTable[j].name \in DOMAIN self.analyzers

\* the entries of CC_ANALYZER_BIN the parse loop has gone through
ProcessedEntries ==
    SubSeq(OverrideEntries, 1, Len(OverrideEntries) - Len(frame.values))

\* C8: an entry is accepted (recorded and announced) exactly when it is
\* itself well-formed and names an existing file, whatever came before it.
C8_EntriesIndependent ==
    pc = "parse" =>
        /\ Len(SelectSeq(log, IsUsing)) = Len(SelectSeq(ProcessedEntries, GoodEntry))
        /\ \A i \in DOMAIN ProcessedEntries :
              GoodEntry(ProcessedEntries[i]) =>
                  analyzer_binary(ProcessedEntries[i]).analyzer
                      \in DOMAIN frame.env_var_bins

\* C9: in PATH-mode, with valid files and overrides, construction
\* completes, the extended environment is not computed, and every layout
\* analyzer that is not overridden is looked up by its file name on the
\* process PATH.
C9_PathModeConstructs ==
    (from_path /\ ValidFiles /\ AllEntriesGood /\ CallEnded) =>
        /\ result.kind = "returned"
        /\ self.analyzer_env.tag = "None"
        /\ \A i \in DOMAIN LayoutTable :
              LayoutTable[i].name \notin OverrideNames =>
                  \E k \in DOMAIN lookups :
                      /\ lookups[k].name = LayoutTable[i].name
                      /\ lookups[k].value = basename(LayoutTable[i].value)
                      /\ lookups[k].path = ProcessPATH

====
